---- MODULE Spec2Model ----
(***************************************************************************)
(* Model of the NAT translation engine of examples/nat/translation.go.     *)
(* Every worker runs PublicToPrivateTranslation or                         *)
(* PrivateToPublicTranslation on one packet at a time; a step of the model *)
(* is one access to the shared state (a sync.Map operation, a portmap read *)
(* or write, a mutex operation), so that workers interleave where the      *)
(* goroutines of the program can.                                          *)
(***************************************************************************)
EXTENDS Integers, Sequences, FiniteSets, TLC

----------------------------------------------------------------------------
(* Bounds of the model *)

\* The clock runs from 0 to MaxTime.
MaxTime == 3
\* Number of dynamically allocatable public ports: portStart .. portEnd - 1.
NumPorts == 2
\* Number of packets one worker takes in a run, one after the other.
SeqPkts == 3
\* Number of packets two workers take in a run, concurrently.
RacePkts == 2
\* Number of packets one worker takes in a run of packets to the box itself.
LocalPkts == 4
\* Number of packets one worker takes in a run about ARP resolution.
ResolvePkts == 4
EvictPkts == 3
ConePkts == 3
FairPkts == 3
\* Number of TCP packets of one connection one worker takes in a run.
ClosePkts == 6

----------------------------------------------------------------------------
(* Constants of the program *)

\* Idle time after which a non-static connection is too old (clock ticks).
connectionTimeout == 2
\* Time a port is held back after a FIN/FIN/ACK close (clock ticks).
portReuseTimeout == 1
\* First port of the allocation range.
portStart == 1024
portEnd == portStart + NumPorts

\* termination directions: two bytes that are bitwise complements
pri2pub == 15
pub2pri == 240
\* ^dir on a uint8
Complement8(d) == 255 - d

TCPNumber == "TCP"
UDPNumber == "UDP"
ICMPNumber == "ICMP"
Protocols == {TCPNumber, UDPNumber, ICMPNumber}
\* the protocols whose lookup key holds a port of the L4 header
PortProtocols == {TCPNumber, UDPNumber}

dirDROP == "DROP"
dirSEND == "SEND"
dirKNI == "KNI"
NoDir == "none"

Workers == {"w1", "w2"}
NoWorker == "none"

----------------------------------------------------------------------------
(* Byte order and addresses *)

SwapBytesUint16(x) == (x % 256) * 256 + (x \div 256)

SwapBytesUint32(x) ==
    (x % 256) * 16777216 + ((x \div 256) % 256) * 65536
      + ((x \div 65536) % 256) * 256 + (x \div 16777216)

\* a.b.c.d as the host-order number the configuration holds
HostIPv4(a, b, c, d) == ((a * 256 + b) * 256 + c) * 256 + d

\* packet.BytesToIPv4: the four bytes of the wire read as a uint32
BytesToIPv4(a, b, c, d) == ((d * 256 + c) * 256 + b) * 256 + a

ArrayToIPv4(arr) == BytesToIPv4(arr[1], arr[2], arr[3], arr[4])

\* the four bytes of the wire of a host-order address
WireBytes(h) ==
    <<h \div 16777216, (h \div 65536) % 256, (h \div 256) % 256, h % 256>>

PublicAddr == HostIPv4(100, 64, 0, 1)
PrivateAddr == HostIPv4(10, 0, 0, 1)
PrivHost == HostIPv4(10, 0, 0, 5)
Remote == HostIPv4(8, 8, 8, 8)

SubnetAddr(side) == IF side = "pub" THEN PublicAddr ELSE PrivateAddr
SrcMACAddress(side) == IF side = "pub" THEN "macPub" ELSE "macPriv"
Opposite(side) == IF side = "pub" THEN "priv" ELSE "pub"
Sides == {"pub", "priv"}

ZeroMAC == "00"
HostMAC(h) == IF h = Remote THEN "macRemote" ELSE "macHost"

\* Tuple is a pair of address and port.
Tuple(a, p) == [addr |-> a, port |-> p]
ZeroTuple == Tuple(0, 0)

PrivPairs == {Tuple(PrivHost, 4000), Tuple(PrivHost, 4001)}
RemotePair == Tuple(Remote, 80)
\* a host of the public network no private host has sent anything to
Stranger == HostIPv4(9, 9, 9, 9)
StrangerPair == Tuple(Stranger, 53)
Ports == portStart .. (portEnd - 1)

\* a static mapping of the configuration: public port portStart to a server
StaticPort == portStart
StaticPriv == Tuple(PrivHost, 22)

----------------------------------------------------------------------------
(* Time *)

\* the zero time.Time: older than any time of the run
ZeroTime == 0 - (connectionTimeout + portReuseTimeout + 1)

\* the zero portMapEntry
ZeroEntry ==
    [lastused |-> ZeroTime, addr |-> 0, finCount |-> 0,
     terminationDirection |-> 0, static |-> FALSE]

----------------------------------------------------------------------------
(* sync.Map *)

Store(m, k, v) == [x \in (DOMAIN m) \cup {k} |-> IF x = k THEN v ELSE m[x]]
Delete(m, k) == [x \in (DOMAIN m) \ {k} |-> m[x]]
Found(m, k) == k \in DOMAIN m
EmptyMap == [x \in {} |-> ZeroTuple]

----------------------------------------------------------------------------
(* Packets *)

TCPFlags == {"FIN", "RST", "ACK"}

ARPRequest == 1
ARPReply == 2

ICMPTypeEchoRequest == 8
ICMPTypeEchoResponse == 0
\* an ICMP type the engine has no answer for (destination unreachable)
ICMPTypeOther == 3

NoPkt ==
    [l3 |-> "none", proto |-> "none", SrcAddr |-> 0, DstAddr |-> 0,
     SrcPort |-> 0, DstPort |-> 0, TCPFlags |-> {}, SAddr |-> ZeroMAC,
     DAddr |-> ZeroMAC, Operation |-> 0, SHA |-> ZeroMAC, SPA |-> <<0, 0, 0, 0>>,
     THA |-> ZeroMAC, TPA |-> <<0, 0, 0, 0>>, Type |-> 0, Code |-> 0,
     Identifier |-> 0]

\* an IPv4 packet as it is on the wire (network byte order)
IPv4Pkt(proto, src, dst, flags, smac, dmac) ==
    [NoPkt EXCEPT !.l3 = "IPv4", !.proto = proto,
                  !.SrcAddr = SwapBytesUint32(src.addr),
                  !.DstAddr = SwapBytesUint32(dst.addr),
                  !.SrcPort = SwapBytesUint16(src.port),
                  !.DstPort = SwapBytesUint16(dst.port),
                  !.TCPFlags = flags, !.SAddr = smac, !.DAddr = dmac]

\* an ICMP packet as it is on the wire
ICMPPkt(src, dst, type, code, id, smac, dmac) ==
    [NoPkt EXCEPT !.l3 = "IPv4", !.proto = ICMPNumber,
                  !.SrcAddr = SwapBytesUint32(src),
                  !.DstAddr = SwapBytesUint32(dst),
                  !.Type = type, !.Code = code,
                  !.Identifier = SwapBytesUint16(id),
                  !.SAddr = smac, !.DAddr = dmac]

\* an IPv4 packet of a protocol that is not TCP, UDP or ICMP
OtherL4Pkt(src, dst, smac, dmac) ==
    [NoPkt EXCEPT !.l3 = "IPv4", !.proto = "other",
                  !.SrcAddr = SwapBytesUint32(src),
                  !.DstAddr = SwapBytesUint32(dst),
                  !.SAddr = smac, !.DAddr = dmac]

ARPPkt(op, sha, spa, tha, tpa) ==
    [NoPkt EXCEPT !.l3 = "ARP", !.Operation = SwapBytesUint16(op),
                  !.SHA = sha, !.SPA = WireBytes(spa), !.THA = tha,
                  !.TPA = WireBytes(tpa), !.SAddr = sha]

FlagSets(proto) == IF proto = TCPNumber THEN SUBSET TCPFlags ELSE {{}}

\* what the private side may receive
PrivateInputs ==
    {IPv4Pkt(proto, src, RemotePair, fl, HostMAC(src.addr), "macPriv") :
        proto \in PortProtocols, src \in PrivPairs, fl \in SUBSET TCPFlags}
      \cup {ARPPkt(ARPReply, HostMAC(PrivHost), PrivHost, "macPriv", PrivateAddr),
            ARPPkt(ARPRequest, HostMAC(PrivHost), PrivHost, ZeroMAC, PrivateAddr),
            [NoPkt EXCEPT !.l3 = "other"]}

\* what the public side may receive
PublicInputs ==
    {IPv4Pkt(proto, RemotePair, Tuple(PublicAddr, p), fl, HostMAC(Remote), "macPub") :
        proto \in PortProtocols, p \in Ports, fl \in SUBSET TCPFlags}
      \cup {ARPPkt(ARPReply, HostMAC(Remote), Remote, "macPub", PublicAddr),
            ARPPkt(ARPRequest, HostMAC(Remote), Remote, ZeroMAC, PublicAddr),
            [NoPkt EXCEPT !.l3 = "other"]}

AllInputs(side) ==
    {p \in (IF side = "pub" THEN PublicInputs ELSE PrivateInputs) :
        p.TCPFlags \in FlagSets(p.proto) \/ p.l3 # "IPv4"}

\* the packets of the concurrent runs: TCP and UDP packets of one private
\* host port and of the public ports, with at most one TCP flag
RaceInputs(side) ==
    {p \in AllInputs(side) :
        /\ p.l3 = "IPv4"
        /\ Cardinality(p.TCPFlags) <= 1
        /\ side = "priv" => SwapBytesUint16(p.SrcPort) = 4000}

\* an ICMP identifier of a private host, and a TCP port of the box itself
EchoId == 7
LocalPort == 80

\* ARP requests the port does not answer: for another address, or with a
\* target hardware address filled in
OddARP(side) ==
    LET host == IF side = "pub" THEN Remote ELSE PrivHost
    IN {ARPPkt(ARPRequest, HostMAC(host), host, ZeroMAC, host),
        ARPPkt(ARPRequest, HostMAC(host), host, HostMAC(host), SubnetAddr(side))}

\* the packets of the runs about the box itself: ICMP, ARP, and packets
\* addressed to the port that received them
LocalInputs(side) ==
    IF side = "priv"
    THEN {ICMPPkt(PrivHost, dst, type, 0, EchoId, HostMAC(PrivHost), "macPriv") :
             dst \in {PrivateAddr, Remote},
             type \in {ICMPTypeEchoRequest, ICMPTypeOther}}
           \cup {IPv4Pkt(proto, Tuple(PrivHost, 4000), Tuple(PrivateAddr, LocalPort),
                         {}, HostMAC(PrivHost), "macPriv") : proto \in PortProtocols}
           \cup {OtherL4Pkt(PrivHost, PrivateAddr, HostMAC(PrivHost), "macPriv")}
           \cup {p \in PrivateInputs : p.l3 = "ARP"}
           \cup OddARP(side)
    ELSE {ICMPPkt(Remote, PublicAddr, type, code, portStart, HostMAC(Remote), "macPub") :
             type \in {ICMPTypeEchoRequest, ICMPTypeEchoResponse}, code \in {0, 1}}
           \cup {p \in PublicInputs : p.l3 = "ARP"}
           \cup OddARP(side)

\* the packets of the runs about ARP resolution: UDP flows of two private
\* pairs, a TCP flow with and without RST, the ARP reply of the remote host,
\* and UDP packets back to the public ports
ResolveInputs(side) ==
    IF side = "priv"
    THEN {p \in PrivateInputs :
            /\ p.l3 = "IPv4"
            /\ \/ p.proto = UDPNumber
               \/ SwapBytesUint16(p.SrcPort) = 4000 /\ p.TCPFlags \in {{}, {"RST"}}}
    ELSE {p \in PublicInputs :
            \/ p.l3 = "ARP" /\ SwapBytesUint16(p.Operation) = ARPReply
            \/ p.l3 = "IPv4" /\ p.proto = UDPNumber}

\* the packets of the long runs: TCP packets of one private host port and of
\* the public ports, with at most one TCP flag
CloseInputs(side) == {p \in RaceInputs(side) : p.proto = TCPNumber}

\* the packets of the concurrent runs about aging: UDP packets of one
\* private host port and of the public ports
EvictInputs(side) == {p \in RaceInputs(side) : p.proto = UDPNumber}

\* the packets of the runs about the senders of ingress packets: TCP and
\* UDP packets of one private host port, and packets to the public ports
\* from the remote host and from a stranger, with any TCP flags
SenderInputs ==
    {IPv4Pkt(proto, src, Tuple(PublicAddr, p), fl,
             IF src = RemotePair THEN HostMAC(Remote) ELSE "macStranger",
             "macPub") :
        proto \in PortProtocols, src \in {RemotePair, StrangerPair},
        p \in Ports, fl \in SUBSET TCPFlags}

ConeInputs(side) ==
    IF side = "priv" THEN RaceInputs(side)
    ELSE {q \in SenderInputs : q.TCPFlags \in FlagSets(q.proto)}

\* the packets of the concurrent runs checked with fair scheduling: the
\* close of a TCP connection of one private host port, a reset connection of
\* another, and a FIN to the public port next to the static one
FairInputs(side) ==
    {p \in AllInputs(side) :
        /\ p.l3 = "IPv4" /\ p.proto = TCPNumber
        /\ IF side = "priv"
           THEN \/ SwapBytesUint16(p.SrcPort) = 4000 /\ p.TCPFlags \in {{"FIN"}, {"ACK"}}
                \/ SwapBytesUint16(p.SrcPort) = 4001 /\ p.TCPFlags = {"RST"}
           ELSE SwapBytesUint16(p.DstPort) = StaticPort + 1 /\ p.TCPFlags = {"FIN"}}

\* the packets a run of the given kind may receive on a side
InputsOf(kind, side) ==
    CASE kind = "all" -> AllInputs(side)
      [] kind = "race" -> RaceInputs(side)
      [] kind = "close" -> CloseInputs(side)
      [] kind = "local" -> LocalInputs(side)
      [] kind = "resolve" -> ResolveInputs(side)
      [] kind = "evict" -> EvictInputs(side)
      [] kind = "cone" -> ConeInputs(side)
      [] kind = "fair" -> FairInputs(side)

\* every packet of the model
Inputs(side) == AllInputs(side) \cup LocalInputs(side) \cup ConeInputs(side)

\* the runs checked: one worker and a clock that ticks at any moment, with
\* any packets or with more packets of one TCP connection, or a clock that
\* ticks between the calls and ingress packets of two senders, or two workers
\* with fewer packets, or with as many packets of UDP flows, and a clock
\* that ticks between the calls
Runs ==
    {[workers |-> {"w1"}, budget |-> SeqPkts, inputs |-> "all", ticks |-> "any"],
     [workers |-> {"w1"}, budget |-> ClosePkts, inputs |-> "close", ticks |-> "any"],
     [workers |-> {"w1"}, budget |-> LocalPkts, inputs |-> "local", ticks |-> "any"],
     [workers |-> {"w1"}, budget |-> ResolvePkts, inputs |-> "resolve", ticks |-> "any"],
     [workers |-> {"w1"}, budget |-> ConePkts, inputs |-> "cone", ticks |-> "idle"],
     [workers |-> Workers, budget |-> RacePkts, inputs |-> "race", ticks |-> "idle"],
     [workers |-> Workers, budget |-> EvictPkts, inputs |-> "evict", ticks |-> "idle"],
     [workers |-> Workers, budget |-> FairPkts, inputs |-> "fair", ticks |-> "idle"]}

\* the runs checked with fair scheduling
FairRuns == {r \in Runs : r.inputs \in {"evict", "fair"}}

SeqRuns == {r \in Runs : r.workers = {"w1"}}

----------------------------------------------------------------------------
VARIABLES
    now,        \* the wall clock
    npkts,      \* packets received so far
    run,        \* the run: its workers, its packets
    kni,        \* kni[side]: the port has a KNIName
    mutex,      \* pp.mutex: the worker holding it, or NoWorker
    portmap,    \* pp.PublicPort.portmap[protocol][port]
    pubTable,   \* pp.PublicPort.translationTable[protocol]
    privTable,  \* pp.PrivatePort.translationTable[protocol]
    arpTable,   \* arpTable[side]: address -> MAC
    pc,         \* pc[w]: where worker w is in its call
    rx,         \* rx[w]: the port the worker's packet came in on
    pkt,        \* pkt[w]: the worker's packet, rewritten in place
    key,        \* key[w]: the lookup key of the call
    value,      \* value[w]: the tuple the lookup or the allocation gave
    found,      \* found[w]: the lookup hit
    disp,       \* disp[w]: the value the call returns
    sent,       \* sent[w]: packets the call has sent itself
    prev,       \* prev[w]: the last egress call of the worker (history)
    fin2At,     \* fin2At[p]: when finCount of TCP port p became 2 (history)
    closedAt,   \* closedAt[p]: fin2At of the FIN/FIN/ACK close of p (history)
    expect,     \* expect[w]: what the ingress call is to come to (history,
                \* kept in the runs about the senders of ingress packets)
    unres       \* unres[w]: the last egress call dropped for a MAC (history,
                \* kept in the runs about ARP resolution)

shared == <<now, npkts, run, kni, mutex, portmap, pubTable, privTable, arpTable>>
locals == <<pc, rx, pkt, key, value, found, disp, sent>>
history == <<prev, fin2At, closedAt, unres, expect>>
vars == <<shared, locals, history>>

NoTime == 0 - 100
NoPrev ==
    [set |-> FALSE, fwd |-> FALSE, proto |-> "none", priv |-> ZeroTuple,
     pub |-> ZeroTuple, at |-> NoTime, flags |-> {}]

\* no outcome on record
NoExpect == [set |-> FALSE]

\* no egress call was dropped for a missing MAC address
NoUnres ==
    [set |-> FALSE, proto |-> "none", priv |-> ZeroTuple, pub |-> ZeroTuple,
     ip |-> 0, arpOnly |-> FALSE]

----------------------------------------------------------------------------
(* Configuration and the initial state *)

\* the configurations checked: kernel interface per side, static mapping
Configs ==
    {[kniPub |-> FALSE, kniPriv |-> FALSE, static |-> FALSE],
     [kniPub |-> FALSE, kniPriv |-> FALSE, static |-> TRUE]}
      \cup {[kniPub |-> a, kniPriv |-> b, static |-> FALSE] : a, b \in BOOLEAN}

\* the configurations a run is checked with: the kernel interfaces come with
\* the packets to the box itself, the static mapping with the others
ConfigsOf(r) ==
    {c \in Configs :
        CASE r.inputs = "local" -> ~c.static
          [] r.inputs = "resolve" -> ~c.static /\ ~c.kniPriv
          [] r.inputs = "fair" -> c.static
          [] OTHER -> ~c.kniPub /\ ~c.kniPriv}

StaticEntry ==
    [lastused |-> 0, addr |-> PublicAddr, finCount |-> 0,
     terminationDirection |-> 0, static |-> TRUE]

InitFor(c, r) ==
    /\ now = 0
    /\ npkts = 0
    /\ run = r
    /\ kni = [s \in Sides |-> IF s = "pub" THEN c.kniPub ELSE c.kniPriv]
    /\ mutex = NoWorker
    /\ portmap =
         [pr \in Protocols |->
            [p \in Ports |->
               IF c.static /\ pr = TCPNumber /\ p = StaticPort
               THEN StaticEntry ELSE ZeroEntry]]
    /\ pubTable =
         [pr \in Protocols |->
            IF c.static /\ pr = TCPNumber
            THEN Store(EmptyMap, Tuple(PublicAddr, StaticPort), StaticPriv)
            ELSE EmptyMap]
    /\ privTable =
         [pr \in Protocols |->
            IF c.static /\ pr = TCPNumber
            THEN Store(EmptyMap, StaticPriv, Tuple(PublicAddr, StaticPort))
            ELSE EmptyMap]
    /\ arpTable = [s \in Sides |-> [x \in {} |-> ZeroMAC]]
    /\ pc = [w \in Workers |-> "idle"]
    /\ rx = [w \in Workers |-> "pub"]
    /\ pkt = [w \in Workers |-> NoPkt]
    /\ key = [w \in Workers |-> ZeroTuple]
    /\ value = [w \in Workers |-> ZeroTuple]
    /\ found = [w \in Workers |-> FALSE]
    /\ disp = [w \in Workers |-> NoDir]
    /\ sent = [w \in Workers |-> <<>>]
    /\ prev = [w \in Workers |-> NoPrev]
    /\ fin2At = [p \in Ports |-> NoTime]
    /\ closedAt = [p \in Ports |-> NoTime]
    /\ unres = [w \in Workers |-> NoUnres]
    /\ expect = [w \in Workers |-> NoExpect]

Init == \E r \in Runs : \E c \in ConfigsOf(r) : InitFor(c, r)

InitSeq == \E r \in SeqRuns : \E c \in ConfigsOf(r) : InitFor(c, r)

InitFair == \E r \in FairRuns : \E c \in ConfigsOf(r) : InitFor(c, r)

----------------------------------------------------------------------------
(* Helpers of the steps *)

Goto(w, l) == pc' = [pc EXCEPT ![w] = l]

\* the call of worker w returns d
Finish(w, d) ==
    /\ pc' = [pc EXCEPT ![w] = "done"]
    /\ disp' = [disp EXCEPT ![w] = d]

Protocol(w) == pkt[w].proto

\* the public port the call of w works on: pub2priKey.port or value.port
PubPortOf(w) == IF rx[w] = "pub" THEN key[w].port ELSE value[w].port

\* the direction a call passes to checkTCPTermination
DirOf(w) == IF rx[w] = "pub" THEN pub2pri ELSE pri2pub

\* TcpBranch with the ACK test ahead of the FIN test
TcpBranchAckFirst(flags) ==
    IF "ACK" \in flags /\ "RST" \notin flags THEN "ackLock"
    ELSE IF "FIN" \in flags THEN "finLock"
    ELSE IF "RST" \in flags THEN "rstLock"
    ELSE "xlate"

\* which branch of checkTCPTermination a packet with these flags takes
TcpBranch(flags) ==
    IF "FIN" \in flags THEN "finLock"
    ELSE IF "RST" \in flags THEN "rstLock"
    ELSE IF "ACK" \in flags THEN "ackLock"
    ELSE "xlate"

\* after the lookup: translate (TCP packets pass checkTCPTermination first),
\* or hand a zero-address binding to the kernel interface
Proceed(w, val) ==
    IF val.addr # 0
    THEN /\ Goto(w, IF Protocol(w) = TCPNumber
                     THEN TcpBranch(pkt[w].TCPFlags) ELSE "xlate")
         /\ disp' = disp
    ELSE Finish(w, dirKNI)

----------------------------------------------------------------------------
(* deleteOldConnection and allocNewPort *)

\* the key of port p in the public table
PubKeyOf(pr, p) == Tuple(portmap[pr][p].addr, p)

\* deleteOldConnection: the tables and the portmap without port p
DelPubTable(pr, p) ==
    [pubTable EXCEPT ![pr] = Delete(pubTable[pr], PubKeyOf(pr, p))]

DelPrivTable(pr, p) ==
    IF Found(pubTable[pr], PubKeyOf(pr, p))
    THEN [privTable EXCEPT ![pr] = Delete(privTable[pr], pubTable[pr][PubKeyOf(pr, p)])]
    ELSE privTable

DelPortmap(pr, p) == [portmap EXCEPT ![pr][p] = ZeroEntry]

deleteOldConnection(pr, p) ==
    /\ pubTable' = DelPubTable(pr, p)
    /\ privTable' = DelPrivTable(pr, p)
    /\ portmap' = DelPortmap(pr, p)

\* a port allocNewPort may hand out: not static, and idle for too long
FreePort(pr, p) ==
    /\ ~portmap[pr][p].static
    /\ now - portmap[pr][p].lastused > connectionTimeout

FreePorts(pr) == {p \in Ports : FreePort(pr, p)}

\* allocNewPort: the lowest free port of the range (0: none, an error)
allocNewPort(pr) ==
    IF FreePorts(pr) = {} THEN 0
    ELSE CHOOSE p \in FreePorts(pr) : \A q \in FreePorts(pr) : p <= q

\* history: the close of TCP port p is forgotten when its entry is reset
ForgetFin(pr, p) ==
    fin2At' = IF pr = TCPNumber THEN [fin2At EXCEPT ![p] = NoTime] ELSE fin2At

\* the connection is static or was used within connectionTimeout
NotTooOld(pr, p) ==
    \/ portmap[pr][p].static
    \/ now - portmap[pr][p].lastused <= connectionTimeout

\* FinEntry with the direction of the second FIN not compared
FinEntryAnyDir(pme, dir) ==
    IF pme.finCount = 0
    THEN [pme EXCEPT !.finCount = 1, !.terminationDirection = dir]
    ELSE IF pme.finCount = 1
    THEN [pme EXCEPT !.finCount = 2]
    ELSE pme

\* the entry of a port after a FIN from direction dir
FinEntry(pme, dir) ==
    IF pme.finCount = 0
    THEN [pme EXCEPT !.finCount = 1, !.terminationDirection = dir]
    ELSE IF pme.finCount = 1 /\ pme.terminationDirection = Complement8(dir)
    THEN [pme EXCEPT !.finCount = 2]
    ELSE pme

\* the time the port of a closed connection is given as last used
HoldTime == now + (portReuseTimeout - connectionTimeout)

----------------------------------------------------------------------------
(* ARP *)

ARPReplyPacket(side, req) ==
    [NoPkt EXCEPT !.l3 = "ARP", !.Operation = SwapBytesUint16(ARPReply),
                  !.SHA = SrcMACAddress(side), !.SPA = req.TPA,
                  !.THA = req.SHA, !.TPA = req.SPA,
                  !.SAddr = SrcMACAddress(side), !.DAddr = req.SHA]

ARPRequestPacket(side, ip) ==
    [NoPkt EXCEPT !.l3 = "ARP", !.Operation = SwapBytesUint16(ARPRequest),
                  !.SHA = SrcMACAddress(side),
                  !.SPA = WireBytes(SubnetAddr(side)),
                  !.THA = ZeroMAC, !.TPA = WireBytes(ip),
                  !.SAddr = SrcMACAddress(side), !.DAddr = "ff"]

\* handleARP: the disposition
handleARPDir(side, p) == IF kni[side] THEN dirKNI ELSE dirDROP

\* handleARPLearn on ports without a kernel interface only
handleARPLearnNoKNI(side, p) ==
    IF SwapBytesUint16(p.Operation) = ARPReply /\ ~kni[side]
    THEN [arpTable EXCEPT ![side] =
            Store(arpTable[side], SwapBytesUint32(ArrayToIPv4(p.SPA)), p.SHA)]
    ELSE arpTable

\* handleARP: a reply is learned
handleARPLearn(side, p) ==
    IF SwapBytesUint16(p.Operation) = ARPReply
    THEN [arpTable EXCEPT ![side] =
            Store(arpTable[side], SwapBytesUint32(ArrayToIPv4(p.SPA)), p.SHA)]
    ELSE arpTable

\* handleARPAnswers with the target hardware address not looked at
handleARPAnswersAnyTHA(side, p) ==
    /\ SwapBytesUint16(p.Operation) = ARPRequest
    /\ ~kni[side]
    /\ BytesToIPv4(p.TPA[1], p.TPA[2], p.TPA[3], p.TPA[4])
         = SwapBytesUint32(SubnetAddr(side))

\* handleARP: a request for the port's address with a blank target is answered
handleARPAnswers(side, p) ==
    /\ SwapBytesUint16(p.Operation) = ARPRequest
    /\ ~kni[side]
    /\ BytesToIPv4(p.TPA[1], p.TPA[2], p.TPA[3], p.TPA[4])
         = SwapBytesUint32(SubnetAddr(side))
    /\ p.THA = ZeroMAC

----------------------------------------------------------------------------
(* Receiving a packet: parsePacketAndCheckARP and the lookup key *)

\* the port of the lookup key: the destination port on the public side, the
\* source port on the private side, the identifier of an ICMP packet
KeyPort(side, p) ==
    IF p.proto \in PortProtocols
    THEN SwapBytesUint16(IF side = "pub" THEN p.DstPort ELSE p.SrcPort)
    ELSE SwapBytesUint16(p.Identifier)

\* generateLookupKeyFromDstAndHandleICMP / ...FromSrc...: the key
LookupKey(side, p) ==
    IF side = "pub"
    THEN Tuple(SwapBytesUint32(p.DstAddr), KeyPort(side, p))
    ELSE Tuple(SwapBytesUint32(p.SrcAddr), KeyPort(side, p))

\* port.translationTable of a side
TableOf(side) == IF side = "pub" THEN pubTable ELSE privTable

\* handleICMP with a key: no entry for the key, or an entry not used for
\* more than connectionTimeout
NoActiveEntry(side, k) ==
    \/ ~Found(TableOf(side)[ICMPNumber], k)
    \/ now - portmap[ICMPNumber][k.port].lastused > connectionTimeout

\* handleICMP: the disposition; the public side passes the key, the private
\* side passes nil
handleICMP(side, p) ==
    IF SwapBytesUint32(p.DstAddr) # SubnetAddr(side) THEN dirSEND
    ELSE IF kni[side] /\ side = "pub" /\ NoActiveEntry(side, LookupKey(side, p))
    THEN dirKNI
    ELSE IF p.Type # ICMPTypeEchoRequest \/ p.Code # 0 THEN dirSEND
    ELSE dirDROP

\* EchoReplyPacket with the addresses left as they came
EchoReplyNoSwap(p) == [p EXCEPT !.Type = ICMPTypeEchoResponse]

\* handleICMP: the answer to an echo request, sent on the receiving port
EchoReplyPacket(p) ==
    [p EXCEPT !.SAddr = p.DAddr, !.DAddr = p.SAddr,
              !.SrcAddr = p.DstAddr, !.DstAddr = p.SrcAddr,
              !.Type = ICMPTypeEchoResponse]

\* generateLookupKeyFrom...AndHandleICMP: dirSEND with a key, or the
\* disposition the call returns without one
KeyDir(side, p) ==
    IF p.proto \in PortProtocols THEN dirSEND
    ELSE IF p.proto = ICMPNumber THEN handleICMP(side, p)
    ELSE dirDROP

\* what the call sends by itself while it parses the packet
Answers(side, p) ==
    IF p.l3 = "ARP" /\ handleARPAnswers(side, p)
    THEN <<ARPReplyPacket(side, p)>>
    ELSE IF p.l3 = "IPv4" /\ p.proto = ICMPNumber /\ KeyDir(side, p) = dirDROP
    THEN <<EchoReplyPacket(p)>>
    ELSE <<>>

\* the destination pair of a packet, in host order
DstPair(p) == Tuple(SwapBytesUint32(p.DstAddr), KeyPort("pub", p))

\* what PublicToPrivateTranslation comes to, in the state as it is, for a
\* TCP or UDP packet of protocol pr to the pair k with the given TCP flags:
\* the value returned, the pair and the MAC address the packet is rewritten
\* to, and the portmap and the tables the call leaves
Outcome(pr, k, flags) ==
    LET p == k.port
        v == pubTable[pr][k]
        same == [portmap |-> portmap, pubTable |-> pubTable,
                 privTable |-> privTable]
        gone == [portmap |-> DelPortmap(pr, p), pubTable |-> DelPubTable(pr, p),
                 privTable |-> DelPrivTable(pr, p)]
        used == [portmap EXCEPT ![pr][p].lastused = now]
        branch == IF pr = TCPNumber THEN TcpBranch(flags) ELSE "xlate"
        left ==
            CASE branch = "finLock" ->
                   [same EXCEPT !.portmap =
                      [used EXCEPT ![pr][p] = FinEntry(used[pr][p], pub2pri)]]
              [] branch = "rstLock" -> gone
              [] branch = "ackLock" /\ portmap[pr][p].finCount = 2 ->
                   [gone EXCEPT !.portmap[pr][p].lastused = HoldTime]
              [] OTHER -> [same EXCEPT !.portmap = used]
        none == [set |-> TRUE, disp |-> dirDROP, dst |-> ZeroTuple,
                 mac |-> ZeroMAC, left |-> same]
    IN IF ~Found(pubTable[pr], k) THEN none
       ELSE IF ~NotTooOld(pr, p) THEN [none EXCEPT !.left = gone]
       ELSE IF Found(arpTable["priv"], v.addr)
       THEN [set |-> TRUE, disp |-> dirSEND, dst |-> v,
             mac |-> arpTable["priv"][v.addr], left |-> left]
       ELSE [none EXCEPT !.left = left]

\* traffic directed at the private interface address with a KNI present
ToPrivateKNI(side, p) ==
    /\ side = "priv"
    /\ kni[side]
    /\ SubnetAddr(side) = SwapBytesUint32(p.DstAddr)

Receive(w, side, p) ==
    /\ pc[w] = "idle"
    /\ w \in run.workers
    /\ npkts < run.budget
    /\ p \in InputsOf(run.inputs, side)
    /\ npkts' = npkts + 1
    /\ rx' = [rx EXCEPT ![w] = side]
    /\ pkt' = [pkt EXCEPT ![w] = p]
    /\ sent' = [sent EXCEPT ![w] = Answers(side, p)]
    /\ arpTable' = IF p.l3 = "ARP" THEN handleARPLearn(side, p) ELSE arpTable
    /\ key' = [key EXCEPT ![w] =
                 IF p.l3 = "IPv4" /\ KeyDir(side, p) = dirSEND
                 THEN LookupKey(side, p) ELSE ZeroTuple]
    /\ IF p.l3 = "ARP" THEN Finish(w, handleARPDir(side, p))
       ELSE IF p.l3 # "IPv4" THEN Finish(w, dirDROP)
       ELSE IF KeyDir(side, p) # dirSEND THEN Finish(w, KeyDir(side, p))
       ELSE IF ToPrivateKNI(side, p) THEN Finish(w, dirKNI)
       ELSE Goto(w, IF side = "pub" THEN "iLoad" ELSE "eLoad") /\ disp' = disp
    /\ prev' = [prev EXCEPT ![w] =
                  IF side = "pub" THEN prev[w]
                  ELSE IF p.l3 = "IPv4"
                  THEN [set |-> TRUE, fwd |-> FALSE, proto |-> p.proto,
                        priv |-> LookupKey(side, p), pub |-> ZeroTuple,
                        at |-> now, flags |-> p.TCPFlags]
                  ELSE NoPrev]
    /\ unres' = [unres EXCEPT ![w] =
                   IF \/ p.l3 = "ARP"
                      \/ /\ side = "priv" /\ p.l3 = "IPv4"
                         /\ p.proto = unres[w].proto
                         /\ LookupKey(side, p) = unres[w].priv
                   THEN unres[w]
                   ELSE [unres[w] EXCEPT !.arpOnly = FALSE]]
    /\ expect' = [expect EXCEPT ![w] =
                    IF run.inputs = "cone" /\ side = "pub" /\ p.l3 = "IPv4"
                    THEN Outcome(p.proto, DstPair(p), p.TCPFlags)
                    ELSE NoExpect]
    /\ UNCHANGED <<now, run, kni, mutex, portmap, pubTable, privTable, value, found,
                   fin2At, closedAt>>

\* the call is over: the worker takes its next packet
Return(w) ==
    /\ pc[w] = "done"
    /\ pc' = [pc EXCEPT ![w] = "idle"]
    /\ pkt' = [pkt EXCEPT ![w] = NoPkt]
    /\ key' = [key EXCEPT ![w] = ZeroTuple]
    /\ value' = [value EXCEPT ![w] = ZeroTuple]
    /\ found' = [found EXCEPT ![w] = FALSE]
    /\ disp' = [disp EXCEPT ![w] = NoDir]
    /\ sent' = [sent EXCEPT ![w] = <<>>]
    /\ prev' = [prev EXCEPT ![w] =
                  IF rx[w] = "priv" /\ pkt[w].l3 = "IPv4" /\ ~found[w]
                     /\ disp[w] = dirSEND
                  THEN [prev[w] EXCEPT !.fwd = TRUE, !.pub = value[w]]
                  ELSE NoPrev]
    /\ rx' = [rx EXCEPT ![w] = "pub"]
    /\ unres' = [unres EXCEPT ![w] =
                   IF /\ rx[w] = "priv" /\ pkt[w].l3 = "IPv4"
                      /\ disp[w] = dirSEND
                      /\ Protocol(w) = unres[w].proto
                      /\ key[w] = unres[w].priv
                   THEN NoUnres ELSE unres[w]]
    /\ expect' = [expect EXCEPT ![w] = NoExpect]
    /\ UNCHANGED <<shared, fin2At, closedAt>>

Tick ==
    /\ now < MaxTime
    /\ run.ticks = "idle" => \A w \in Workers : pc[w] = "idle"
    /\ now' = now + 1
    /\ UNCHANGED <<npkts, run, kni, mutex, portmap, pubTable, privTable, arpTable, locals,
                   history>>

----------------------------------------------------------------------------
(* PublicToPrivateTranslation: lookup and aging *)

\* PubLoad with the result of the lookup not checked: a miss goes on as a hit
PubLoadUnchecked(w) ==
    /\ pc[w] = "iLoad"
    /\ value' = [value EXCEPT ![w] =
                   IF Found(pubTable[Protocol(w)], key[w])
                   THEN pubTable[Protocol(w)][key[w]] ELSE ZeroTuple]
    /\ found' = [found EXCEPT ![w] = Found(pubTable[Protocol(w)], key[w])]
    /\ Goto(w, "iRefresh")
    /\ UNCHANGED <<shared, rx, pkt, key, disp, sent, history>>

\* PubLoad for known senders only: a packet of another sender misses
PubLoadRestricted(w) ==
    /\ pc[w] = "iLoad"
    /\ IF /\ Found(pubTable[Protocol(w)], key[w])
          /\ SwapBytesUint32(pkt[w].SrcAddr) = Remote
       THEN /\ value' = [value EXCEPT ![w] = pubTable[Protocol(w)][key[w]]]
            /\ found' = [found EXCEPT ![w] = TRUE]
            /\ Goto(w, "iAge")
            /\ disp' = disp
       ELSE /\ Finish(w, dirDROP)
            /\ UNCHANGED <<value, found>>
    /\ UNCHANGED <<shared, rx, pkt, key, sent, history>>

\* v, found := port.translationTable[protocol].Load(*pub2priKey)
PubLoad(w) ==
    /\ pc[w] = "iLoad"
    /\ IF Found(pubTable[Protocol(w)], key[w])
       THEN /\ value' = [value EXCEPT ![w] = pubTable[Protocol(w)][key[w]]]
            /\ found' = [found EXCEPT ![w] = TRUE]
            /\ Goto(w, "iAge")
            /\ disp' = disp
       ELSE /\ Finish(w, dirDROP)
            /\ UNCHANGED <<value, found>>
    /\ UNCHANGED <<shared, rx, pkt, key, sent, history>>

\* Check whether connection is too old
PubAge(w) ==
    /\ pc[w] = "iAge"
    /\ Goto(w, IF NotTooOld(Protocol(w), key[w].port)
               THEN "iRefresh" ELSE "iEvictLock")
    /\ UNCHANGED <<shared, rx, pkt, key, value, found, disp, sent, history>>

\* port.portmap[protocol][pub2priKey.port].lastused = time.Now()
PubRefresh(w) ==
    /\ pc[w] = "iRefresh"
    /\ portmap' = [portmap EXCEPT ![Protocol(w)][key[w].port].lastused = now]
    /\ Proceed(w, value[w])
    /\ UNCHANGED <<now, npkts, run, kni, mutex, pubTable, privTable, arpTable, rx, pkt, key,
                   value, found, sent, history>>

\* PubEvictLock without pp.mutex.Lock()
PubEvictNoLock(w) ==
    /\ pc[w] = "iEvictLock"
    /\ Goto(w, "iEvict")
    /\ UNCHANGED <<shared, rx, pkt, key, value, found, disp, sent, history>>

\* pp.mutex.Lock() before the eviction
PubEvictLock(w) ==
    /\ pc[w] = "iEvictLock"
    /\ mutex = NoWorker
    /\ mutex' = w
    /\ Goto(w, "iEvict")
    /\ UNCHANGED <<now, npkts, run, kni, portmap, pubTable, privTable, arpTable, rx, pkt,
                   key, value, found, disp, sent, history>>

\* pp.deleteOldConnection(protocol, int(pub2priKey.port))
PubEvict(w) ==
    /\ pc[w] = "iEvict"
    /\ deleteOldConnection(Protocol(w), key[w].port)
    /\ ForgetFin(Protocol(w), key[w].port)
    /\ Goto(w, "iEvictUnlock")
    /\ UNCHANGED <<now, npkts, run, kni, mutex, arpTable, rx, pkt, key, value, found, disp,
                   sent, prev, closedAt, unres, expect>>

PubEvictUnlock(w) ==
    /\ pc[w] = "iEvictUnlock"
    /\ mutex' = NoWorker
    /\ Finish(w, dirDROP)
    /\ UNCHANGED <<now, npkts, run, kni, portmap, pubTable, privTable, arpTable, rx, pkt,
                   key, value, found, sent, history>>

----------------------------------------------------------------------------
(* checkTCPTermination *)

TcpLock(w) ==
    /\ pc[w] \in {"finLock", "rstLock", "ackLock"}
    /\ mutex = NoWorker
    /\ mutex' = w
    /\ Goto(w, CASE pc[w] = "finLock" -> "fin"
                 [] pc[w] = "rstLock" -> "rst"
                 [] pc[w] = "ackLock" -> "ack")
    /\ UNCHANGED <<now, npkts, run, kni, portmap, pubTable, privTable, arpTable, rx, pkt,
                   key, value, found, disp, sent, history>>

\* First check for FIN
TcpFin(w) ==
    /\ pc[w] = "fin"
    /\ LET p == PubPortOf(w)
           e == FinEntry(portmap[TCPNumber][p], DirOf(w))
       IN /\ portmap' = [portmap EXCEPT ![TCPNumber][p] = e]
          /\ fin2At' = IF e.finCount = 2 /\ portmap[TCPNumber][p].finCount # 2
                       THEN [fin2At EXCEPT ![p] = now] ELSE fin2At
    /\ Goto(w, "tcpUnlock")
    /\ UNCHANGED <<now, npkts, run, kni, mutex, pubTable, privTable, arpTable, rx, pkt, key,
                   value, found, disp, sent, prev, closedAt, unres, expect>>

\* RST means that connection is terminated immediately
TcpRst(w) ==
    /\ pc[w] = "rst"
    /\ deleteOldConnection(TCPNumber, PubPortOf(w))
    /\ ForgetFin(TCPNumber, PubPortOf(w))
    /\ Goto(w, "tcpUnlock")
    /\ UNCHANGED <<now, npkts, run, kni, mutex, arpTable, rx, pkt, key, value, found, disp,
                   sent, prev, closedAt, unres, expect>>

\* Check for ACK last: with finCount = 2 the connection is deleted
TcpAck(w) ==
    /\ pc[w] = "ack"
    /\ LET p == PubPortOf(w)
       IN IF portmap[TCPNumber][p].finCount = 2
          THEN /\ deleteOldConnection(TCPNumber, p)
               /\ closedAt' = [closedAt EXCEPT ![p] = fin2At[p]]
               /\ ForgetFin(TCPNumber, p)
               /\ Goto(w, "ackHold")
          ELSE /\ Goto(w, "tcpUnlock")
               /\ UNCHANGED <<portmap, pubTable, privTable, fin2At, closedAt>>
    /\ UNCHANGED <<now, npkts, run, kni, mutex, arpTable, rx, pkt, key, value, found, disp,
                   sent, prev, unres, expect>>

\* TcpAckHold with lastused left as deleteOldConnection set it
TcpAckNoHold(w) ==
    /\ pc[w] = "ackHold"
    /\ Goto(w, "tcpUnlock")
    /\ UNCHANGED <<shared, rx, pkt, key, value, found, disp, sent, history>>

\* pme.lastused = time.Now().Add(portReuseTimeout - connectionTimeout)
TcpAckHold(w) ==
    /\ pc[w] = "ackHold"
    /\ portmap' = [portmap EXCEPT ![TCPNumber][PubPortOf(w)].lastused = HoldTime]
    /\ Goto(w, "tcpUnlock")
    /\ UNCHANGED <<now, npkts, run, kni, mutex, pubTable, privTable, arpTable, rx, pkt, key,
                   value, found, disp, sent, history>>

\* TcpUnlock without pp.mutex.Unlock()
TcpUnlockLeak(w) ==
    /\ pc[w] = "tcpUnlock"
    /\ Goto(w, "xlate")
    /\ UNCHANGED <<shared, rx, pkt, key, value, found, disp, sent, history>>

TcpUnlock(w) ==
    /\ pc[w] = "tcpUnlock"
    /\ mutex' = NoWorker
    /\ Goto(w, "xlate")
    /\ UNCHANGED <<now, npkts, run, kni, portmap, pubTable, privTable, arpTable, rx, pkt,
                   key, value, found, disp, sent, history>>

----------------------------------------------------------------------------
(* PrivateToPublicTranslation: lookup and allocateNewEgressConnection *)

\* v, found := port.translationTable[protocol].Load(*pri2pubKey)
PrivLoad(w) ==
    /\ pc[w] = "eLoad"
    /\ IF Found(privTable[Protocol(w)], key[w])
       THEN /\ value' = [value EXCEPT ![w] = privTable[Protocol(w)][key[w]]]
            /\ found' = [found EXCEPT ![w] = TRUE]
            /\ Goto(w, "eRefresh")
       ELSE /\ Goto(w, "eLearn")
            /\ UNCHANGED <<value, found>>
    /\ UNCHANGED <<shared, rx, pkt, key, disp, sent, history>>

\* PrivRefresh with lastused left as it was
PrivRefreshNoWrite(w) ==
    /\ pc[w] = "eRefresh"
    /\ Proceed(w, value[w])
    /\ UNCHANGED <<shared, rx, pkt, key, value, found, sent, history>>

\* pp.PublicPort.portmap[protocol][value.port].lastused = time.Now()
PrivRefresh(w) ==
    /\ pc[w] = "eRefresh"
    /\ portmap' = [portmap EXCEPT ![Protocol(w)][value[w].port].lastused = now]
    /\ Proceed(w, value[w])
    /\ UNCHANGED <<now, npkts, run, kni, mutex, pubTable, privTable, arpTable, rx, pkt, key,
                   value, found, sent, history>>

\* Store new local network entry in ARP cache
PrivLearn(w) ==
    /\ pc[w] = "eLearn"
    /\ arpTable' = [arpTable EXCEPT !["priv"] =
                      Store(arpTable["priv"], key[w].addr, pkt[w].SAddr)]
    /\ Goto(w, "eAllocLock")
    /\ UNCHANGED <<now, npkts, run, kni, mutex, portmap, pubTable, privTable, rx, pkt, key,
                   value, found, disp, sent, history>>

AllocLock(w) ==
    /\ pc[w] = "eAllocLock"
    /\ mutex = NoWorker
    /\ mutex' = w
    /\ Goto(w, "eAlloc")
    /\ UNCHANGED <<now, npkts, run, kni, portmap, pubTable, privTable, arpTable, rx, pkt,
                   key, value, found, disp, sent, history>>

\* AllocPort with the key looked up again under the mutex: a mapping stored
\* since the miss is used and no port is allocated
AllocPortRecheck(w) ==
    /\ pc[w] = "eAlloc"
    /\ LET p == allocNewPort(Protocol(w))
       IN IF Found(privTable[Protocol(w)], key[w])
          THEN /\ value' = [value EXCEPT ![w] = privTable[Protocol(w)][key[w]]]
               /\ Goto(w, "eAllocUnlock")
               /\ UNCHANGED <<portmap, pubTable, privTable, fin2At, closedAt>>
          ELSE IF p = 0
          THEN /\ Goto(w, "eAllocFail")
               /\ UNCHANGED <<portmap, pubTable, privTable, value, fin2At,
                              closedAt>>
          ELSE /\ deleteOldConnection(Protocol(w), p)
               /\ ForgetFin(Protocol(w), p)
               /\ closedAt' = IF Protocol(w) = TCPNumber
                              THEN [closedAt EXCEPT ![p] = NoTime] ELSE closedAt
               /\ value' = [value EXCEPT ![w] = Tuple(PublicAddr, p)]
               /\ Goto(w, "eSetPortmap")
    /\ UNCHANGED <<now, npkts, run, kni, mutex, arpTable, rx, pkt, key, found, disp, sent,
                   prev, unres, expect>>

\* port, err := pp.allocNewPort(protocol)
AllocPort(w) ==
    /\ pc[w] = "eAlloc"
    /\ LET p == allocNewPort(Protocol(w))
       IN IF p = 0
          THEN /\ Goto(w, "eAllocFail")
               /\ UNCHANGED <<portmap, pubTable, privTable, value, fin2At,
                              closedAt>>
          ELSE /\ deleteOldConnection(Protocol(w), p)
               /\ ForgetFin(Protocol(w), p)
               /\ closedAt' = IF Protocol(w) = TCPNumber
                              THEN [closedAt EXCEPT ![p] = NoTime] ELSE closedAt
               /\ value' = [value EXCEPT ![w] = Tuple(PublicAddr, p)]
               /\ Goto(w, "eSetPortmap")
    /\ UNCHANGED <<now, npkts, run, kni, mutex, arpTable, rx, pkt, key, found, disp, sent,
                   prev, unres, expect>>

\* AllocFail without pp.mutex.Unlock()
AllocFailNoUnlock(w) ==
    /\ pc[w] = "eAllocFail"
    /\ Finish(w, dirDROP)
    /\ UNCHANGED <<shared, rx, pkt, key, value, found, sent, history>>

\* if err != nil { pp.mutex.Unlock(); return Tuple{}, err }: the packet is dropped
AllocFail(w) ==
    /\ pc[w] = "eAllocFail"
    /\ mutex' = NoWorker
    /\ Finish(w, dirDROP)
    /\ UNCHANGED <<now, npkts, run, kni, portmap, pubTable, privTable, arpTable, rx, pkt,
                   key, value, found, sent, history>>

\* the portMapEntry of a new connection
NewEntry ==
    [lastused |-> now, addr |-> PublicAddr, finCount |-> 0,
     terminationDirection |-> 0, static |-> FALSE]

\* pp.PublicPort.portmap[protocol][port] = portMapEntry{...}
SetPortmap(w) ==
    /\ pc[w] = "eSetPortmap"
    /\ portmap' = [portmap EXCEPT ![Protocol(w)][value[w].port] = NewEntry]
    /\ Goto(w, "eStorePub")
    /\ UNCHANGED <<now, npkts, run, kni, mutex, pubTable, privTable, arpTable, rx, pkt, key,
                   value, found, disp, sent, history>>

\* pp.PublicPort.translationTable[protocol].Store(pubEntry, *privEntry)
StorePub(w) ==
    /\ pc[w] = "eStorePub"
    /\ pubTable' = [pubTable EXCEPT ![Protocol(w)] =
                      Store(pubTable[Protocol(w)], value[w], key[w])]
    /\ Goto(w, "eStorePriv")
    /\ UNCHANGED <<now, npkts, run, kni, mutex, portmap, privTable, arpTable, rx, pkt, key,
                   value, found, disp, sent, history>>

\* pp.PrivatePort.translationTable[protocol].Store(*privEntry, pubEntry)
StorePriv(w) ==
    /\ pc[w] = "eStorePriv"
    /\ privTable' = [privTable EXCEPT ![Protocol(w)] =
                       Store(privTable[Protocol(w)], key[w], value[w])]
    /\ Goto(w, "eAllocUnlock")
    /\ UNCHANGED <<now, npkts, run, kni, mutex, portmap, pubTable, arpTable, rx, pkt, key,
                   value, found, disp, sent, history>>

\* pp.mutex.Unlock(); return pubEntry, nil
AllocUnlock(w) ==
    /\ pc[w] = "eAllocUnlock"
    /\ mutex' = NoWorker
    /\ Proceed(w, value[w])
    /\ UNCHANGED <<now, npkts, run, kni, portmap, pubTable, privTable, arpTable, rx, pkt,
                   key, value, found, sent, history>>

----------------------------------------------------------------------------
(* Packet translation *)

\* the address whose MAC the translation needs
NextHop(w) ==
    IF rx[w] = "pub" THEN value[w].addr ELSE SwapBytesUint32(pkt[w].DstAddr)

\* setPacketDstPort, setPacketSrcPort: the port of a TCP or UDP header, the
\* identifier of an ICMP header; x is in network byte order
setPacketPort(p, field, x) ==
    IF p.proto \in PortProtocols THEN [p EXCEPT ![field] = x]
    ELSE [p EXCEPT !.Identifier = x]

\* Rewritten with the port written in host byte order
RewrittenNoSwap(w, mac) ==
    IF rx[w] = "pub"
    THEN setPacketPort([pkt[w] EXCEPT !.DAddr = mac, !.SAddr = SrcMACAddress(rx[w]),
                                      !.DstAddr = SwapBytesUint32(value[w].addr)],
                       "DstPort", value[w].port)
    ELSE setPacketPort([pkt[w] EXCEPT !.DAddr = mac, !.SAddr = SrcMACAddress(rx[w]),
                                      !.SrcAddr = SwapBytesUint32(value[w].addr)],
                       "SrcPort", value[w].port)

\* the packet with the MAC addresses and the translated address and port
Rewritten(w, mac) ==
    IF rx[w] = "pub"
    THEN setPacketPort([pkt[w] EXCEPT !.DAddr = mac, !.SAddr = SrcMACAddress(rx[w]),
                                      !.DstAddr = SwapBytesUint32(value[w].addr)],
                       "DstPort", SwapBytesUint16(value[w].port))
    ELSE setPacketPort([pkt[w] EXCEPT !.DAddr = mac, !.SAddr = SrcMACAddress(rx[w]),
                                      !.SrcAddr = SwapBytesUint32(value[w].addr)],
                       "SrcPort", SwapBytesUint16(value[w].port))

\* getMACForIP on the opposite port, then the rewrite or the drop
Translate(w) ==
    /\ pc[w] = "xlate"
    /\ LET far == Opposite(rx[w])
           ip == NextHop(w)
       IN IF Found(arpTable[far], ip)
          THEN /\ pkt' = [pkt EXCEPT ![w] = Rewritten(w, arpTable[far][ip])]
               /\ Finish(w, dirSEND)
               /\ sent' = sent
          ELSE /\ sent' = [sent EXCEPT ![w] =
                             Append(sent[w], ARPRequestPacket(far, ip))]
               /\ Finish(w, dirDROP)
               /\ pkt' = pkt
    /\ unres' = [unres EXCEPT ![w] =
                   IF /\ rx[w] = "priv" /\ ~Found(arpTable["pub"], NextHop(w))
                      /\ run.inputs = "resolve"
                   THEN [set |-> TRUE, proto |-> Protocol(w), priv |-> key[w],
                         pub |-> value[w], ip |-> NextHop(w), arpOnly |-> TRUE]
                   ELSE unres[w]]
    /\ UNCHANGED <<shared, rx, key, value, found, prev, fin2At, closedAt, expect>>

----------------------------------------------------------------------------
(* The system *)

\* a step of the call of w, between the packet and the value returned
CallStep(w) ==
    \/ PubLoad(w)
    \/ PubAge(w)
    \/ PubRefresh(w)
    \/ PubEvictLock(w)
    \/ PubEvict(w)
    \/ PubEvictUnlock(w)
    \/ PrivLoad(w)
    \/ PrivRefresh(w)
    \/ PrivLearn(w)
    \/ AllocLock(w)
    \/ AllocPort(w)
    \/ AllocFail(w)
    \/ SetPortmap(w)
    \/ StorePub(w)
    \/ StorePriv(w)
    \/ AllocUnlock(w)
    \/ TcpLock(w)
    \/ TcpFin(w)
    \/ TcpRst(w)
    \/ TcpAck(w)
    \/ TcpAckHold(w)
    \/ TcpUnlock(w)
    \/ Translate(w)

WorkerStep(w) ==
    \/ \E side \in Sides : \E p \in Inputs(side) : Receive(w, side, p)
    \/ CallStep(w)
    \/ Return(w)

\* any number of workers, interleaved at every access to the shared state
Next == Tick \/ \E w \in Workers : WorkerStep(w)

Spec == Init /\ [][Next]_vars

\* one worker: the packets are translated one after the other
SpecSeq == InitSeq /\ [][Next]_vars

\* fair scheduling: a worker whose call can take a step takes one
SpecFair == InitFair /\ [][Next]_vars /\ \A w \in Workers : WF_vars(CallStep(w))

TypeOK ==
    /\ now \in 0 .. MaxTime
    /\ mutex \in Workers \cup {NoWorker}
    /\ \A pr \in Protocols : \A p \in Ports :
         portmap[pr][p].finCount \in {0, 1, 2}

----------------------------------------------------------------------------
(* Vocabulary of the properties *)

\* the call of w is a translation of an IPv4 packet received on side
Translating(w, side) == rx[w] = side /\ pkt[w].l3 = "IPv4" /\ pc[w] # "idle"

\* worker w takes a step
Steps(w) == pc'[w] # pc[w]

\* the translation tables and the port states, and the port states but lastused
Tables == <<pubTable, privTable>>

SameState(e1, e2) ==
    /\ e1.finCount = e2.finCount
    /\ e1.terminationDirection = e2.terminationDirection
    /\ e1.static = e2.static
    /\ e1.addr = e2.addr

\* the public pair of port p
PubPair(p) == Tuple(PublicAddr, p)

\* port p of protocol pr is in neither table
Unmapped(pr, p) ==
    /\ ~Found(pubTable[pr], PubPair(p))
    /\ \A k \in DOMAIN privTable[pr] : privTable[pr][k].port # p

----------------------------------------------------------------------------
(* C1 *)

----------------------------------------------------------------------------
(* C2 *)

\* the ingress call of w has ended, and it followed an egress call that
\* allocated a mapping for a private pair that had none (prev[w].priv) and
\* was forwarded with the source prev[w].pub; the ingress packet was
\* addressed to that public pair, and no more than connectionTimeout has
\* passed since the egress packet came in
RoundTrip(w) ==
    /\ Translating(w, "pub")
    /\ pc[w] = "done"
    /\ prev[w].fwd
    /\ prev[w].proto = Protocol(w)
    /\ key[w] = prev[w].pub
    /\ now - prev[w].at <= connectionTimeout

\* the ingress packet is forwarded to the private pair of the egress packet
BackToPrivate(w) ==
    /\ disp[w] = dirSEND
    /\ DstPair(pkt[w]) = prev[w].priv

\* the egress packet was a TCP packet with RST and without FIN
WasReset(w) == "RST" \in prev[w].flags /\ "FIN" \notin prev[w].flags

----------------------------------------------------------------------------
(* C3 *)

\* C3: at most one mapping per key. For every protocol, every private pair
\* of the private table maps to a public pair that maps back to it in the
\* public table, and no other public pair maps to that private pair.
C3_OneToOne ==
    \A pr \in Protocols : \A k \in DOMAIN privTable[pr] :
        /\ Found(pubTable[pr], privTable[pr][k])
        /\ pubTable[pr][privTable[pr][k]] = k
        /\ \A q \in DOMAIN pubTable[pr] :
             pubTable[pr][q] = k => q = privTable[pr][k]

----------------------------------------------------------------------------
(* C4 *)

\* the lookup of w is about to hit an entry that is not static and was last
\* used more than connectionTimeout ago
StaleHit(w) ==
    LET tbl == IF rx[w] = "pub" THEN pubTable[Protocol(w)]
               ELSE privTable[Protocol(w)]
        p == IF rx[w] = "pub" THEN key[w].port ELSE tbl[key[w]].port
    IN /\ Found(tbl, key[w])
       /\ p \in Ports
       /\ ~NotTooOld(Protocol(w), p)

\* the ingress half of C4: the check of a stale entry sends the call to the
\* eviction, the eviction removes both mappings and frees the port, and the
\* call ends with the drop disposition
C4_IngressExpiry ==
    [][\A w \in Workers :
         /\ (pc[w] = "iAge" /\ Steps(w) /\ StaleHit(w))
              => pc'[w] = "iEvictLock"
         /\ (pc[w] = "iEvict" /\ Steps(w))
              => /\ Unmapped(Protocol(w), key[w].port)'
                 /\ portmap'[Protocol(w)][key[w].port] = ZeroEntry
         /\ (pc[w] = "iEvictUnlock" /\ Steps(w))
              => pc'[w] = "done" /\ disp'[w] = dirDROP]_vars

\* C4: idle expiry. A lookup that hits an entry that is not static and was
\* last used more than connectionTimeout ago, by an ingress or an egress
\* packet, is treated as a miss: the call goes on to evict the entry, and
\* does not go on to refresh lastused and reuse the mapping.
C4_IdleExpiry ==
    [][\A w \in Workers :
         (pc[w] \in {"iAge", "eLoad"} /\ Steps(w) /\ StaleHit(w))
           => pc'[w] \notin {"iRefresh", "eRefresh"}]_vars

\* an ingress packet has hit a stale entry and the entry has been evicted
C4_IngressWitness ==
    \E w \in Workers :
        /\ Translating(w, "pub")
        /\ pc[w] = "iEvictUnlock"
        /\ Unmapped(Protocol(w), key[w].port)

----------------------------------------------------------------------------
(* C5 *)

\* worker w, in checkTCPTermination with the mutex held, takes a step on the
\* entry of TCP port p
TcpStep(w, l, p) == pc[w] = l /\ Steps(w) /\ PubPortOf(w) = p

\* C5: TCP close sequencing. finCount is 0, 1 or 2 in every state. It
\* becomes 2 only from 1, by a packet with FIN of the direction opposite to
\* the recorded one; the first FIN sets it to 1 and records the direction; a
\* FIN of the recorded direction on finCount 1 changes nothing. A packet
\* with ACK and neither FIN nor RST removes the entry from both tables when
\* finCount is 2, and changes nothing otherwise.
C5_CloseSequencing ==
    /\ [](\A p \in Ports : portmap[TCPNumber][p].finCount \in {0, 1, 2})
    /\ [][\A p \in Ports :
            LET e == portmap[TCPNumber][p]
            IN /\ (e.finCount # 2 /\ portmap'[TCPNumber][p].finCount = 2)
                    => /\ e.finCount = 1
                       /\ \E w \in Workers :
                            /\ TcpStep(w, "fin", p)
                            /\ "FIN" \in pkt[w].TCPFlags
                            /\ DirOf(w) = Complement8(e.terminationDirection)
               /\ \A w \in Workers :
                    /\ (TcpStep(w, "fin", p) /\ e.finCount = 0)
                         => /\ portmap'[TCPNumber][p].finCount = 1
                            /\ portmap'[TCPNumber][p].terminationDirection
                                 = DirOf(w)
                            /\ UNCHANGED Tables
                    /\ (TcpStep(w, "fin", p) /\ e.finCount = 1
                          /\ DirOf(w) = e.terminationDirection)
                         => UNCHANGED <<portmap, pubTable, privTable>>
                    /\ (TcpStep(w, "ack", p) /\ e.finCount = 2)
                         => /\ Unmapped(TCPNumber, p)'
                            /\ portmap'[TCPNumber][p].finCount = 0
                    /\ (TcpStep(w, "ack", p) /\ e.finCount # 2)
                         => UNCHANGED <<portmap, pubTable, privTable>>]_vars

\* a connection that had a FIN from each direction has been removed by an ACK
C5_Witness ==
    \E w \in Workers :
        /\ pc[w] = "ackHold"
        /\ fin2At[PubPortOf(w)] = NoTime
        /\ closedAt[PubPortOf(w)] # NoTime
        /\ Unmapped(TCPNumber, PubPortOf(w))

----------------------------------------------------------------------------
(* C6 *)

\* TCP port p was freed by a FIN, a FIN of the other direction and an ACK,
\* and no more than portReuseTimeout has passed since the second FIN
HeldBack(p) ==
    /\ closedAt[p] # NoTime
    /\ now - closedAt[p] <= portReuseTimeout

\* C6: delayed port reuse. While no more than portReuseTimeout has passed
\* since the second FIN of a connection closed by FIN, FIN, ACK, whatever
\* packets came later, the port is not free for allocNewPort once the close
\* has released the mutex, and a call of allocNewPort for a new TCP flow
\* does not return it.
C6_DelayedReuse ==
    \A p \in Ports :
        HeldBack(p) =>
            /\ mutex = NoWorker => ~FreePort(TCPNumber, p)
            /\ \A w \in Workers :
                 (pc[w] = "eAlloc" /\ Protocol(w) = TCPNumber)
                   => allocNewPort(TCPNumber) # p

\* allocNewPort is called for a new TCP flow while a port is held back, and
\* it has another port to give
C6_Witness ==
    \E p \in Ports : \E w \in Workers :
        /\ HeldBack(p)
        /\ pc[w] = "eAlloc"
        /\ Protocol(w) = TCPNumber
        /\ allocNewPort(TCPNumber) \in Ports \ {p}

----------------------------------------------------------------------------
(* C7 *)

\* the call of w, on a TCP packet with RST that hit an entry or was given a
\* new one, is past checkTCPTermination
AfterRst(w) ==
    /\ pc[w] = "xlate"
    /\ Protocol(w) = TCPNumber
    /\ "RST" \in pkt[w].TCPFlags

\* TCP port p is in neither table and its state is that of a port never
\* used: free at once, lastused not moved forward
Removed(p) ==
    /\ Unmapped(TCPNumber, p)
    /\ portmap[TCPNumber][p] = ZeroEntry
    /\ FreePort(TCPNumber, p)

\* C7: RST immediacy. Once a TCP packet with RST set, from either side, is
\* past checkTCPTermination, the entry of its public port is removed from
\* both tables and the port is free with no reuse delay.
C7_RstImmediacy == \A w \in Workers : AfterRst(w) => Removed(PubPortOf(w))

\* the same for the packets with RST set and FIN clear
C7_RstWithoutFin ==
    \A w \in Workers :
        (AfterRst(w) /\ "FIN" \notin pkt[w].TCPFlags) => Removed(PubPortOf(w))

\* an ingress packet with RST and without FIN has removed an entry
C7_RstWitness ==
    \E w \in Workers :
        /\ AfterRst(w)
        /\ rx[w] = "pub"
        /\ "FIN" \notin pkt[w].TCPFlags
        /\ Removed(PubPortOf(w))

----------------------------------------------------------------------------
(* C8 *)

\* where a call is between pp.mutex.Lock() and pp.mutex.Unlock(): the
\* eviction, the allocation with its insertions, the TCP tracking
Mutating ==
    {"iEvict", "iEvictUnlock", "eAlloc", "eAllocFail", "eSetPortmap",
     "eStorePub", "eStorePriv", "eAllocUnlock", "fin", "rst", "ack",
     "ackHold", "tcpUnlock"}

\* where a call waits for the mutex
Waiting == {"iEvictLock", "eAllocLock", "finLock", "rstLock", "ackLock"}

\* the step adds or removes a translation entry, or changes a port state in
\* more than lastused
Mutation ==
    \/ Tables' # Tables
    \/ \E pr \in Protocols : \E p \in Ports :
         ~SameState(portmap[pr][p], portmap'[pr][p])

\* C8: write serialization. A worker is inside an allocation, an insertion
\* or removal of entries, a TCP state transition or an eviction exactly when
\* it holds the mutex, so at most one worker is; every step that changes a
\* translation table, or a port state in more than lastused, is a step of
\* the worker holding the mutex; and a worker that looks up a MAC address,
\* rewrites the packet or returns a disposition does not hold the mutex.
C8_WriteSerialization ==
    /\ [](\A w \in Workers : pc[w] \in Mutating <=> mutex = w)
    /\ [](\A w \in Workers : pc[w] \in {"xlate", "done", "idle"} => mutex # w)
    /\ [][Mutation => \E w \in Workers :
                        /\ mutex = w
                        /\ pc[w] \in Mutating
                        /\ Steps(w)
                        /\ \A v \in Workers \ {w} : pc'[v] = pc[v]]_vars

\* one worker inserts a mapping while the other waits for the mutex
C8_Witness ==
    \E w \in Workers : \E v \in Workers \ {w} :
        /\ mutex = w
        /\ pc[w] = "eStorePriv"
        /\ pc[v] \in Waiting

----------------------------------------------------------------------------
(* C9 *)

\* the egress call of w missed and has a public pair from the allocation
Allocated(w) ==
    /\ Translating(w, "priv")
    /\ ~found[w]
    /\ value[w].port \in Ports

\* the public pair the call of w was given maps to its private pair
Bound(w) ==
    /\ Found(pubTable[Protocol(w)], value[w])
    /\ pubTable[Protocol(w)][value[w]] = key[w]

\* w and v each missed on the same private pair and protocol; v allocated
\* first, has released the mutex and its mapping is there; w holds the mutex
\* at label l of allocateNewEgressConnection
Raced(w, v, l) ==
    /\ w # v
    /\ Translating(w, "priv") /\ ~found[w]
    /\ Allocated(v)
    /\ key[w] = key[v] /\ Protocol(w) = Protocol(v)
    /\ pc[w] = l
    /\ pc[v] \in Waiting \cup {"xlate", "done"}
    /\ Bound(v)

\* two public ports are bound to the private pair of w and v, and the
\* private table keeps the later one
DoubleBound(w, v) ==
    /\ value[w] # value[v]
    /\ Bound(w)
    /\ Bound(v)
    /\ privTable[Protocol(w)][key[w]] = value[w]

\* C9: the double-allocation race. When two workers running
\* PrivateToPublicTranslation have both missed on the same private pair and
\* one has been through allocateNewEgressConnection, the other does not
\* notice the new mapping under the mutex: it calls allocNewPort, is given a
\* different public port and leaves the first mapping in the public table;
\* once it has stored its own, two public ports are bound to the one private
\* pair.
C9_DoubleAllocation ==
    [][\A w \in Workers : \A v \in Workers :
         /\ (Raced(w, v, "eAlloc") /\ Steps(w))
              => /\ pc'[w] \in {"eSetPortmap", "eAllocFail"}
                 /\ pc'[w] = "eSetPortmap"
                      => value'[w] # value[v] /\ Bound(v)'
         /\ (Raced(w, v, "eStorePriv") /\ Steps(w) /\ value[w] # value[v])
              => DoubleBound(w, v)']_vars

\* both lookups missed before either worker took the mutex
C9_BothMissed ==
    \E w \in Workers : \E v \in Workers \ {w} :
        /\ pc[w] = "eAllocLock" /\ pc[v] = "eAllocLock"
        /\ key[w] = key[v] /\ Protocol(w) = Protocol(v)
        /\ mutex = NoWorker

\* two workers have raced and two public ports are bound to one private pair
C9_Witness ==
    \E w \in Workers : \E v \in Workers :
        Raced(w, v, "eAllocUnlock") /\ DoubleBound(w, v)

----------------------------------------------------------------------------
(* C10 *)

\* the egress call of w missed and is at label l
Missed(w, l) == Translating(w, "priv") /\ ~found[w] /\ pc[w] = l /\ Steps(w)

\* C10: pool exhaustion is not fatal. An egress packet of a new flow changes
\* no table and no port state before the allocation. When allocNewPort has
\* no free port, the allocation fails with the tables and the port states
\* unchanged, and the call then releases the mutex and returns the drop
\* disposition. When a port is free, because it was never used or because
\* its non-static flow has expired, the call of the same kind is given such
\* a port, with the expired mappings removed.
C10_Exhaustion ==
    [][\A w \in Workers :
         /\ (\E l \in {"eLoad", "eLearn", "eAllocLock"} : Missed(w, l))
              => UNCHANGED <<pubTable, privTable, portmap>>
         /\ (Missed(w, "eAlloc") /\ FreePorts(Protocol(w)) = {})
              => /\ pc'[w] = "eAllocFail"
                 /\ mutex' = w
                 /\ UNCHANGED <<pubTable, privTable, portmap>>
         /\ Missed(w, "eAllocFail")
              => /\ pc'[w] = "done"
                 /\ disp'[w] = dirDROP
                 /\ mutex' = NoWorker
                 /\ sent'[w] = <<>>
                 /\ UNCHANGED <<pubTable, privTable, portmap>>
         /\ (Missed(w, "eAlloc") /\ FreePorts(Protocol(w)) # {})
              => /\ pc'[w] = "eSetPortmap"
                 /\ value'[w].addr = PublicAddr
                 /\ \E pr \in Protocols : \E p \in FreePorts(pr) :
                      /\ pr = Protocol(w)
                      /\ value'[w].port = p
                      /\ Unmapped(pr, p)']_vars

\* an egress packet of a new flow has been dropped for lack of a free port
C10_Witness ==
    \E w \in Workers :
        /\ Translating(w, "priv")
        /\ Protocol(w) \in Protocols
        /\ ~found[w]
        /\ pc[w] = "done"
        /\ disp[w] = dirDROP
        /\ value[w] = ZeroTuple
        /\ FreePorts(Protocol(w)) = {}
        /\ ~Found(privTable[Protocol(w)], key[w])
        /\ mutex = NoWorker

\* a port whose flow has expired is about to be given to a new flow
C10_Recovery ==
    \E w \in Workers : \E p \in Ports :
        /\ Translating(w, "priv")
        /\ ~found[w]
        /\ pc[w] = "eAlloc"
        /\ allocNewPort(Protocol(w)) = p
        /\ Found(pubTable[Protocol(w)], PubPair(p))
        /\ \A q \in Ports \ {p} : ~FreePort(Protocol(w), q)

----------------------------------------------------------------------------
(* C11 *)

\* the call of w is on an IPv4 packet that came in on the private port, is
\* addressed to the private port's own address, and the private port has a
\* kernel interface
ToTheBox(w) ==
    /\ Translating(w, "priv")
    /\ kni["priv"]
    /\ SwapBytesUint32(pkt[w].DstAddr) = SubnetAddr("priv")

\* the call has returned the kernel disposition at once: nothing sent,
\* nothing looked up, nothing allocated
HandedToKernel(w) ==
    /\ pc[w] = "done"
    /\ disp[w] = dirKNI
    /\ sent[w] = <<>>
    /\ value[w] = ZeroTuple
    /\ ~found[w]

\* C11: egress traffic to the NAT box itself. With a kernel interface on the
\* private port, every IPv4 packet received there and addressed to the
\* port's own address is handed to the kernel, whatever its L4 protocol or
\* ICMP type, with no reply generated and no port allocated.
C11_EgressToTheBox == \A w \in Workers : ToTheBox(w) => HandedToKernel(w)

\* the same for TCP, UDP, and ICMP other than an echo request with code 0
C11_ExceptEchoAndOther ==
    \A w \in Workers :
        (/\ ToTheBox(w)
         /\ \/ Protocol(w) \in PortProtocols
            \/ /\ Protocol(w) = ICMPNumber
               /\ pkt[w].Type # ICMPTypeEchoRequest \/ pkt[w].Code # 0)
          => HandedToKernel(w)

\* an ICMP packet that is not an echo request was handed to the kernel
C11_KernelWitness ==
    \E w \in Workers :
        ToTheBox(w) /\ Protocol(w) = ICMPNumber /\ HandedToKernel(w)

\* an echo request to the box was answered by the engine and dropped
C11_EchoAnswered ==
    \E w \in Workers :
        /\ ToTheBox(w)
        /\ Protocol(w) = ICMPNumber
        /\ disp[w] = dirDROP
        /\ Len(sent[w]) = 1

----------------------------------------------------------------------------
(* C12 *)

\* the call of w is on an ICMP echo request with code 0 addressed to the
\* address of the port that received it
SelfEcho(w) ==
    /\ pc[w] # "idle"
    /\ pkt[w].l3 = "IPv4"
    /\ Protocol(w) = ICMPNumber
    /\ pkt[w].Type = ICMPTypeEchoRequest
    /\ pkt[w].Code = 0
    /\ SwapBytesUint32(pkt[w].DstAddr) = SubnetAddr(rx[w])

\* the call sent one echo reply, from the port's address to the sender of
\* the request, and returned the drop disposition with nothing looked up or
\* allocated
EchoReplied(w) ==
    /\ pc[w] = "done"
    /\ disp[w] = dirDROP
    /\ Len(sent[w]) = 1
    /\ sent[w][1].proto = ICMPNumber
    /\ sent[w][1].Type = ICMPTypeEchoResponse
    /\ sent[w][1].Identifier = pkt[w].Identifier
    /\ SwapBytesUint32(sent[w][1].SrcAddr) = SubnetAddr(rx[w])
    /\ sent[w][1].DstAddr = pkt[w].SrcAddr
    /\ sent[w][1].DAddr = pkt[w].SAddr
    /\ value[w] = ZeroTuple
    /\ ~found[w]

\* C12 as stated: every echo request addressed to the receiving port's own
\* address is answered with one echo reply and dropped.
C12_Original == \A w \in Workers : SelfEcho(w) => EchoReplied(w)

\* C12: self-addressed echo. An echo request (code 0) addressed to the
\* receiving port's own address is answered with exactly one echo reply and
\* dropped, with nothing allocated, when the receiving port has no kernel
\* interface, or when it is the public port and the identifier has an ICMP
\* entry used within connectionTimeout.
C12_SelfEcho ==
    \A w \in Workers :
        (/\ SelfEcho(w)
         /\ \/ ~kni[rx[w]]
            \/ rx[w] = "pub" /\ ~NoActiveEntry("pub", LookupKey("pub", pkt[w])))
          => EchoReplied(w)

\* an echo request to the public address was answered although the public
\* port has a kernel interface: its identifier has a fresh entry
C12_Witness ==
    \E w \in Workers :
        /\ SelfEcho(w)
        /\ rx[w] = "pub"
        /\ kni["pub"]
        /\ ~NoActiveEntry("pub", LookupKey("pub", pkt[w]))
        /\ EchoReplied(w)

\* an echo request to the public address went to the kernel unanswered
C12_ToKernel ==
    \E w \in Workers :
        SelfEcho(w) /\ rx[w] = "pub" /\ disp[w] = dirKNI /\ sent[w] = <<>>

----------------------------------------------------------------------------
(* C13 *)

\* the call of w is on an ARP request
ArpRequested(w) ==
    /\ pc[w] # "idle"
    /\ pkt[w].l3 = "ARP"
    /\ SwapBytesUint16(pkt[w].Operation) = ARPRequest

\* the request asks for the address of the port it came in on and its
\* target hardware address is all zero
ForThisPort(w) ==
    /\ pkt[w].TPA = WireBytes(SubnetAddr(rx[w]))
    /\ pkt[w].THA = ZeroMAC

\* the call sent one ARP reply with the MAC of the port, the sender and
\* target fields of the request swapped, and dropped the request
ArpReplied(w) ==
    /\ pc[w] = "done"
    /\ disp[w] = dirDROP
    /\ Len(sent[w]) = 1
    /\ sent[w][1].l3 = "ARP"
    /\ SwapBytesUint16(sent[w][1].Operation) = ARPReply
    /\ sent[w][1].SHA = SrcMACAddress(rx[w])
    /\ sent[w][1].SPA = pkt[w].TPA
    /\ sent[w][1].THA = pkt[w].SHA
    /\ sent[w][1].TPA = pkt[w].SPA

\* C13 as stated: a request for the port's address with a zero target
\* hardware address is answered with one reply and dropped; any other
\* request is not answered.
C13_Original ==
    \A w \in Workers :
        ArpRequested(w) =>
            IF ForThisPort(w) THEN ArpReplied(w) ELSE sent[w] = <<>>

\* C13: ARP answer correctness. On a port without a kernel interface, an ARP
\* request for the port's configured address with a zero target hardware
\* address is answered with exactly one reply carrying the port's MAC, and
\* is dropped. A request for another address, or with a target hardware
\* address filled in, or received on a port with a kernel interface, is not
\* answered; with a kernel interface it is handed to the kernel.
C13_ArpAnswer ==
    \A w \in Workers :
        ArpRequested(w) =>
            /\ pc[w] = "done"
            /\ IF kni[rx[w]] THEN disp[w] = dirKNI /\ sent[w] = <<>>
               ELSE IF ForThisPort(w) THEN ArpReplied(w)
               ELSE disp[w] = dirDROP /\ sent[w] = <<>>

\* a request for the address of the public port has been answered
C13_Witness ==
    \E w \in Workers :
        /\ ArpRequested(w)
        /\ rx[w] = "pub"
        /\ ~kni["pub"]
        /\ ForThisPort(w)
        /\ ArpReplied(w)

----------------------------------------------------------------------------
(* C14 *)

\* the source pair of a packet, in host order
SrcPair(p) == Tuple(SwapBytesUint32(p.SrcAddr), KeyPort("priv", p))

\* the egress call of w had a public pair and was dropped for the MAC
\* address of the next hop
DroppedForMAC(w) ==
    /\ Translating(w, "priv")
    /\ pc[w] = "done"
    /\ disp[w] = dirDROP
    /\ value[w].port \in Ports

\* the egress call of w is over; it is on a packet of the flow of the last
\* call dropped for a MAC address, to the same next hop, and that address
\* has been learned on the public port since
Retried(w) ==
    /\ unres[w].set
    /\ Translating(w, "priv")
    /\ pc[w] = "done"
    /\ Protocol(w) = unres[w].proto
    /\ key[w] = unres[w].priv
    /\ NextHop(w) = unres[w].ip
    /\ Found(arpTable["pub"], unres[w].ip)

\* the packet went out with the public pair of the dropped packet as source
SameMapping(w) ==
    /\ disp[w] = dirSEND
    /\ SrcPair(pkt[w]) = unres[w].pub
    /\ pkt[w].DAddr = arpTable["pub"][unres[w].ip]

----------------------------------------------------------------------------
(* C15 *)

\* the labels of allocateNewEgressConnection and of the miss before it
AllocLabels ==
    {"eLearn", "eAllocLock", "eAlloc", "eSetPortmap", "eStorePub",
     "eStorePriv", "eAllocUnlock"}

\* the egress call of w found the mapping of its private pair
EgressHit(w) == Translating(w, "priv") /\ found[w]

\* the egress call of w is over without a lookup, on a packet of a private
\* pair that has a mapping
NotLookedUp(w) ==
    /\ Translating(w, "priv")
    /\ pc[w] = "done"
    /\ ~found[w]
    /\ value[w] = ZeroTuple
    /\ pkt[w].proto \in Protocols
    /\ Found(privTable[pkt[w].proto], SrcPair(pkt[w]))

\* the packet went out with value as its source
SentAs(w) == disp[w] = dirSEND /\ SrcPair(pkt[w]) = value[w]

\* C15 as stated: every egress packet of a private pair that has a mapping,
\* to any destination, goes out rewritten to the public pair of the mapping.
C15_Original ==
    \A w \in Workers :
        ((EgressHit(w) /\ pc[w] = "done") \/ NotLookedUp(w)) => SentAs(w)

\* C15: an egress hit reuses the mapping. An egress packet whose lookup in
\* the private table hits takes the public pair of the entry as its value,
\* changes no table and allocates no port; its next step sets lastused of
\* that public port to the current time and changes nothing else of the
\* portmap; and when the call returns the packet is either sent with that
\* public pair as its source, or dropped with one ARP request sent because
\* the next hop has no MAC address.
C15_EgressHit ==
    /\ [](\A w \in Workers :
            EgressHit(w) =>
                /\ pc[w] \notin AllocLabels
                /\ pc[w] = "done" =>
                     \/ SentAs(w)
                     \/ /\ disp[w] = dirDROP
                        /\ pkt[w].SrcAddr = SwapBytesUint32(key[w].addr)
                        /\ sent[w] = <<ARPRequestPacket("pub", NextHop(w))>>)
    /\ [][\A w \in Workers :
            /\ (/\ pc[w] = "eLoad" /\ Steps(w)
                /\ Found(privTable[Protocol(w)], key[w]))
                 => /\ pc'[w] = "eRefresh"
                    /\ value'[w] = privTable[Protocol(w)][key[w]]
                    /\ UNCHANGED <<portmap, Tables>>
            /\ (pc[w] = "eRefresh" /\ Steps(w))
                 => /\ portmap' = [portmap EXCEPT
                          ![Protocol(w)][value[w].port].lastused = now]
                    /\ UNCHANGED Tables]_vars

\* a later packet of a mapped private pair went out with the public pair of
\* the mapping, whose port was last used at the current time, after the
\* clock has moved
C15_Witness ==
    \E w \in Workers :
        /\ EgressHit(w)
        /\ pc[w] = "done"
        /\ SentAs(w)
        /\ now > 0
        /\ Found(privTable[Protocol(w)], key[w])
        /\ privTable[Protocol(w)][key[w]] = value[w]
        /\ portmap[Protocol(w)][value[w].port].lastused = now

----------------------------------------------------------------------------
(* C17 *)

\* the labels of checkTCPTermination
FinLabels == {"finLock", "fin"}
RstLabels == {"rstLock", "rst"}
AckLabels == {"ackLock", "ack", "ackHold"}
TcpLabels == FinLabels \cup RstLabels \cup AckLabels \cup {"tcpUnlock"}

\* the call of w is in checkTCPTermination
InTracker(w) == pc[w] \in TcpLabels

\* the entry of a port but for its FIN count and direction
Binding(pme) == <<pme.lastused, pme.addr, pme.static>>

\* C17: flag precedence in the TCP tracker. A TCP packet with FIN takes the
\* FIN branch of checkTCPTermination whatever other flags it has: no step of
\* the tracker on it changes a translation table, or anything of the portmap
\* but the FIN count and direction of its port, even with ACK set and a FIN
\* count of 2. The RST branch is taken only with RST and without FIN, the
\* ACK branch only with ACK and without FIN and RST; and a step of the
\* tracker that removes a mapping is the RST branch's, or the ACK branch's
\* with a FIN count of 2.
C17_FlagPrecedence ==
    /\ [](\A w \in Workers :
            /\ pc[w] \in FinLabels => "FIN" \in pkt[w].TCPFlags
            /\ pc[w] \in RstLabels =>
                 "RST" \in pkt[w].TCPFlags /\ "FIN" \notin pkt[w].TCPFlags
            /\ pc[w] \in AckLabels =>
                 /\ "ACK" \in pkt[w].TCPFlags
                 /\ {"FIN", "RST"} \cap pkt[w].TCPFlags = {})
    /\ [][\A w \in Workers :
            /\ (InTracker(w) /\ Steps(w) /\ "FIN" \in pkt[w].TCPFlags)
                 => /\ UNCHANGED Tables
                    /\ pc[w] \in FinLabels \cup {"tcpUnlock"}
                    /\ \A pr \in Protocols : \A p \in Ports :
                         /\ Binding(portmap'[pr][p]) = Binding(portmap[pr][p])
                         /\ (pr # TCPNumber \/ p # PubPortOf(w))
                              => portmap'[pr][p] = portmap[pr][p]
            /\ (InTracker(w) /\ Steps(w) /\ Tables' # Tables)
                 => \/ pc[w] = "rst"
                    \/ /\ pc[w] = "ack"
                       /\ portmap[TCPNumber][PubPortOf(w)].finCount = 2]_vars

\* a packet with FIN and ACK is in the FIN branch of the tracker, under the
\* mutex, with the FIN count of its port at 2 already and the mapping of the
\* port in the table
C17_Witness ==
    \E w \in Workers :
        /\ pc[w] = "fin"
        /\ mutex = w
        /\ Translating(w, rx[w])
        /\ Protocol(w) = TCPNumber
        /\ {"FIN", "ACK"} \subseteq pkt[w].TCPFlags
        /\ portmap[TCPNumber][PubPortOf(w)].finCount = 2
        /\ fin2At[PubPortOf(w)] # NoTime
        /\ Found(pubTable[TCPNumber], PubPair(PubPortOf(w)))

----------------------------------------------------------------------------
(* C19 *)

\* port p of protocol pr has a static mapping, in both tables
StaticMapped(pr, p) ==
    /\ portmap[pr][p].static
    /\ Found(pubTable[pr], PubPair(p))
    /\ Found(privTable[pr], pubTable[pr][PubPair(p)])
    /\ privTable[pr][pubTable[pr][PubPair(p)]] = PubPair(p)

\* C19: static mappings are permanent. No step removes or changes the
\* mapping of a port whose entry is static, in either table, or clears the
\* static flag of the entry.
C19_StaticPermanent ==
    [][\A pr \in Protocols : \A p \in Ports :
         StaticMapped(pr, p)
           => /\ StaticMapped(pr, p)'
              /\ pubTable'[pr][PubPair(p)] = pubTable[pr][PubPair(p)]]_vars

\* the ingress aging path leaves a static mapping alone: an ingress packet
\* to the static port was looked up long after the port was last used and
\* went on to be translated
C19_AgingWitness ==
    \E w \in Workers :
        /\ Translating(w, "pub")
        /\ pc[w] = "done"
        /\ disp[w] = dirSEND
        /\ key[w] = PubPair(StaticPort)
        /\ StaticMapped(Protocol(w), StaticPort)
        /\ now > connectionTimeout

----------------------------------------------------------------------------
(* C18 *)

\* the ingress call of w found its entry too old and is about to remove it,
\* with the mutex held
Evicting(w) == Translating(w, "pub") /\ pc[w] = "iEvict"

\* the port of the call is bound to the private pair the call loaded
StillLoaded(w) == pubTable[Protocol(w)][key[w]] = value[w]

\* the port of the call has a mapping to remove
HasMapping(w) == Found(pubTable[Protocol(w)], key[w])

\* C18: eviction removes only what was judged stale. When the ingress aging
\* path removes the mapping of a public port, the port is still bound to
\* the private pair the call loaded, and its entry is still too old.
C18_EvictsOnlyStale ==
    \A w \in Workers :
        (Evicting(w) /\ HasMapping(w)) =>
            /\ StillLoaded(w)
            /\ ~NotTooOld(Protocol(w), key[w].port)

\* in the runs of one worker the entry removed is the entry judged too old
C18_Sequential ==
    \A w \in Workers :
        (Evicting(w) /\ run.workers = {w}) =>
            /\ HasMapping(w)
            /\ StillLoaded(w)
            /\ ~NotTooOld(Protocol(w), key[w].port)

\* one worker is about to remove a connection while the other has one of
\* its packets past the lookup
C18_RaceWitness ==
    \E w, v \in Workers :
        /\ w # v
        /\ Evicting(w)
        /\ Translating(v, "priv")
        /\ found[v]
        /\ value[v] = key[w]

----------------------------------------------------------------------------
(* C16 *)

\* the ingress call of w is over and what it was to come to is on record
IngressDone(w) ==
    /\ Translating(w, "pub")
    /\ pc[w] = "done"
    /\ expect[w].set

\* what the call has left behind
Left == [portmap |-> portmap, pubTable |-> pubTable, privTable |-> privTable]

\* the packet came from the host no private host has sent anything to
FromStranger(w) == SwapBytesUint32(pkt[w].SrcAddr) = Stranger

\* C16: full cone per allocated port. What an ingress call on a TCP or UDP
\* packet returns, the private pair and MAC address it rewrites the packet
\* to, and the portmap and tables it leaves are what Outcome gives for the
\* protocol, the destination pair and the TCP flags of the packet in the
\* state the call began in: the source address and port of the packet have
\* no part in it, and the call leaves them as they were.
C16_FullCone ==
    \A w \in Workers :
        IngressDone(w) =>
            /\ disp[w] = expect[w].disp
            /\ Left = expect[w].left
            /\ disp[w] = dirSEND =>
                 /\ DstPair(pkt[w]) = expect[w].dst
                 /\ pkt[w].DAddr = expect[w].mac
            /\ SrcPair(pkt[w]) \in {RemotePair, StrangerPair}

\* a packet of the stranger to an allocated port was translated and sent to
\* the private pair that owns the port
C16_Witness ==
    \E w \in Workers :
        /\ IngressDone(w)
        /\ FromStranger(w)
        /\ disp[w] = dirSEND
        /\ DstPair(pkt[w]) = Tuple(PrivHost, 4000)
        /\ DstPair(pkt[w]) = expect[w].dst

----------------------------------------------------------------------------
(* C20 *)

\* what a call may return
Dispositions == {dirSEND, dirDROP, dirKNI}

\* the call of w is under way
InCall(w) == pc[w] \notin {"idle", "done"}

\* the call of w has returned
Returned(w) == pc[w] = "done"

\* C20: no lock leak and no deadlock. A worker holds the mutex exactly
\* between a Lock and the Unlock that follows it, never while it waits for
\* the mutex and never when its call has returned; a call that has returned
\* has exactly one disposition; and with fair scheduling every call that is
\* under way returns.
C20_Termination ==
    /\ [](\A w \in Workers :
            /\ pc[w] \in Waiting => mutex # w
            /\ mutex = w => pc[w] \in Mutating
            /\ Returned(w) => mutex # w /\ disp[w] \in Dispositions
            /\ InCall(w) => disp[w] = NoDir)
    /\ \A w \in Workers : InCall(w) ~> Returned(w)

\* both workers have taken and released the mutex in calls under way at the
\* same time, and both calls have returned
C20_Witness ==
    \E w \in Workers : \E v \in Workers \ {w} :
        /\ Returned(w) /\ Returned(v)
        /\ Allocated(w) /\ Allocated(v)
        /\ disp[w] \in Dispositions /\ disp[v] \in Dispositions
        /\ mutex = NoWorker

====
